---- MODULE Spec2Model ----
(***************************************************************************)
(* The commerce tool handlers and the session (bootstrap, mode choice, run  *)
(* loops) of the CDP Agentkit chatbot example                              *)
(* (cdp-langchain/examples/chatbot/chatbot.ts and its earlier variant      *)
(* with a fetch-based createCharge).  One tool handler runs at a time; a   *)
(* handler is a sequence of awaited steps, each step one action.  The      *)
(* wallet, the commerce gateway, the agent and the terminal are the        *)
(* environment: what they answer is chosen with \E from small sets.        *)
(* Spec is the handlers, SpecLoop the session, SpecAuto the session with   *)
(* its autonomous loop scheduled.                                          *)
(***************************************************************************)
EXTENDS Integers, Sequences, FiniteSets, TLC

VARIABLES
  tool,         \* the handler that is running or ran last ("none" at start)
  args,         \* its args object
  pc,           \* position inside the handler; "idle" | ... | "done"
  walletAddress,\* local: the address object's id, "none" when unset
  hydratedCharge,\* local of payCharge: hydratedCharge.data
  privateKey,   \* local of payCharge: walletAddress.export()
  payerWallet,  \* local of payCharge: commerce.wallets.createWallet(...)
  response,     \* local: the data of the gateway's answer
  payUrl,       \* local of createPayLink: the URL object
  gwLog,        \* history: the gateway calls of this invocation, in order
  logs,         \* history: console output of this invocation, in order
  result,       \* how the invocation ended: returned string or raised error
  failure,      \* history: the error the failing call of this invocation gave
  hydSerial,    \* gateway: number of hydrations it has issued
  priorHyd,     \* gateway: chain and serial of the last hydration of an earlier invocation
  networkId,    \* wallet: wallet.getNetworkId()
  walletLog,    \* history: the wallet calls of this invocation, in order
  lpc,          \* position of main: "start" | "boot_..." | "chooseMode" | "chat_..." | "auto_..." | "exited"
  mode,         \* what chooseMode returned, "none" before
  exitCode,     \* the exit status of the process, -1 while it runs
  walletDataStr,\* initializeAgent: walletDataStr, "null" when unset
  config,       \* initializeAgent: the config of configureWithWallet, None before
  tools,        \* initializeAgent: the names of the tools array, in order
  rlOpen,       \* the readline interfaces that are open
  inputs,       \* history: the lines runChatMode read, in order
  submitted,    \* history: the first MaxTurns messages agent.stream was called with
  inFlight,     \* number of streams obtained and not yet consumed to their end
  emitted,      \* the chunks of the current turn's stream
  consumed,     \* how many of them the for-await loop has taken
  rendered,     \* console.log output of the current turn, in order
  errOut,       \* history: console.error output of main and what it calls
  thrown        \* history: the error that ended the session, None when none did

\* the state of the session: main, initializeAgent, chooseMode and the run loops
sessionVars == <<lpc, mode, exitCode, walletDataStr, config, tools, rlOpen, inputs, submitted,
                 inFlight, emitted, consumed, rendered, errOut, thrown>>

\* the state of the tool handlers
toolVars == <<tool, args, pc, walletAddress, hydratedCharge, privateKey, payerWallet,
              response, payUrl, gwLog, logs, result, failure, hydSerial, priorHyd,
              networkId, walletLog>>

vars == <<toolVars, sessionVars>>

----------------------------------------------------------------------------
(* Bounds of the model *)

\* the gateway issues at most this many hydrations in a run
MaxHydrations == 2
\* the gateway lists at most this many charges
MaxCharges == 2
\* a session submits at most this many turns
MaxTurns == 2
\* the stream of a turn holds at most this many chunks
MaxEvents == 2

----------------------------------------------------------------------------
(* Values *)

None == [tag |-> "none"]

\* chain id of the PayerWallet, chatbot.ts line 239
SettlementChainId == 8453

\* decimals of USDC_CURRENCY, chatbot.ts line 227
UsdcDecimals == 6

USDC_CURRENCY ==
  [contractAddress |-> "0x833589fCD6eDb6E08f4c7C32D4f71b54bdA02913",
   isNativeAsset |-> FALSE,
   decimals |-> UsdcDecimals]

\* a native asset: a currency a hydrated charge may expect instead
NATIVE_CURRENCY ==
  [contractAddress |-> "0x0000000000000000000000000000000000000000",
   isNativeAsset |-> TRUE,
   decimals |-> 18]

PAY_BASE_URL == "https://pay.coinbase.com/buy/select-asset"
PROJECT_ID == "a61fb36c-4a21-4315-a8aa-b2bb07190dc6"

ChargeIds == {"charge_1", "charge_2"}
ChainIds == {1, SettlementChainId}
Addresses == {"0xA11ce", "0xB0b"}
PrivateKeys == {"0xKEY_A", "0xKEY_B"}
NetworkIds == {"base-sepolia", "base-mainnet"}
ExpectedCurrencies == {USDC_CURRENCY, NATIVE_CURRENCY}

GatewayErrors ==
  {[error |-> "GatewayError", detail |-> "transport"],
   [error |-> "GatewayError", detail |-> "api"]}
WalletErrors ==
  {[error |-> "WalletError", detail |-> "address"],
   [error |-> "WalletError", detail |-> "export"]}

Returned(v) == [kind |-> "return", value |-> v]
Raised(e) == [kind |-> "throw", value |-> e]
NoResult == [kind |-> "none", value |-> None]

ErrorLog(label, e) == [stream |-> "error", label |-> label, value |-> e]
OutLog(v) == [stream |-> "log", label |-> "", value |-> [printed |-> v]]

\* the address of the account a private key controls
AccountAddress(key) == IF key = "0xKEY_A" THEN "0xPayerA" ELSE "0xPayerB"

----------------------------------------------------------------------------
(* Entering and leaving a handler *)

Running == pc \notin {"idle", "done"}

WalletCall(op, ok, resp) == [op |-> op, ok |-> ok, resp |-> resp]

GatewayCall(op, req, ok, resp) == [op |-> op, req |-> req, ok |-> ok, resp |-> resp]

\* the hydration the gateway issued in the calls of log, None when it issued none
LastHydration(log) ==
  LET hs == {i \in 1..Len(log) : log[i].op = "hydrateCharge" /\ log[i].ok} IN
  IF hs = {} THEN None ELSE log[CHOOSE i \in hs : \A j \in hs : j <= i].resp

\* The agent runtime calls a handler with a validated args object, one handler
\* at a time: the locals of the new invocation are unset.
Enter(t, a, first) ==
  /\ tool' = t
  /\ args' = a
  /\ pc' = first
  /\ walletAddress' = "none"
  /\ hydratedCharge' = None
  /\ privateKey' = "none"
  /\ payerWallet' = None
  /\ response' = None
  /\ payUrl' = None
  /\ gwLog' = <<>>
  /\ logs' = <<>>
  /\ result' = NoResult
  /\ failure' = None
  /\ walletLog' = <<>>
  /\ priorHyd' = IF LastHydration(gwLog) # None
                   THEN [chainId |-> LastHydration(gwLog).chainId,
                         serial |-> LastHydration(gwLog).serial]
                   ELSE priorHyd
  /\ UNCHANGED <<sessionVars, hydSerial, networkId>>

\* a handler whose key and PayerWallet are kept in fields that outlive the call
Leave_keyRetained(r) ==
  /\ result' = r
  /\ pc' = "done"
  /\ UNCHANGED priorHyd
  /\ walletAddress' = "none"
  /\ hydratedCharge' = None
  /\ UNCHANGED <<privateKey, payerWallet>>
  /\ response' = None
  /\ payUrl' = None

\* The handler ends: its locals go out of scope.
Leave(r) ==
  /\ result' = r
  /\ pc' = "done"
  /\ UNCHANGED priorHyd
  /\ walletAddress' = "none"
  /\ hydratedCharge' = None
  /\ privateKey' = "none"
  /\ payerWallet' = None
  /\ response' = None
  /\ payUrl' = None

\* catch (error) { console.error(label, error); throw error; }
CatchRethrow(label, e) ==
  /\ logs' = Append(logs, ErrorLog(label, e))
  /\ Leave(Raised(e))

----------------------------------------------------------------------------
(* Tool input and its schemas *)

\* a value of a raw tool input, tagged with its JavaScript type
Str(v) == [type |-> "string", v |-> v]
Num(n) == [type |-> "number", n |-> n]
Undefined == [type |-> "undefined"]

\* z.string(), z.number(), z.enum([...])
ZString == [kind |-> "string", options |-> {}]
ZNumber == [kind |-> "number", options |-> {}]
ZEnum(options) == [kind |-> "enum", options |-> options]

\* whether a value passes a field's schema
Conforms(z, raw) ==
  CASE z.kind = "string" -> raw.type = "string"
    [] z.kind = "number" -> raw.type = "number"
    [] z.kind = "enum" -> raw.type = "string" /\ raw.v \in z.options

\* whether a raw input passes an object schema: every field of the schema is
\* required
Valid(schema, raw) == \A f \in DOMAIN schema : Conforms(schema[f], raw[f])

\* the error a tool invocation gives for input that fails the tool's schema
ValidationError(name) == [error |-> "ValidationError", detail |-> name]

\* const PayChargeInput = z.object({ charge_id: z.string(), chain_id: z.number() })
PayChargeInput == [charge_id |-> ZString, chain_id |-> ZNumber]

\* const HydrateChargeInput = z.object({ charge_id: z.string(), chain_id: z.number() })
HydrateChargeInput == [charge_id |-> ZString, chain_id |-> ZNumber]

\* the raw values a caller may give for charge_id and chain_id
RawChargeIds == {Str(c) : c \in ChargeIds} \cup {Undefined}
RawChainIds == {Num(n) : n \in ChainIds} \cup {Str("base"), Undefined}

----------------------------------------------------------------------------
(* payCharge, chatbot.ts 216-254 *)

\* charge_id and chain_id are raw values that pass PayChargeInput
payCharge_enter(charge_id, chain_id) ==
  /\ ~Running
  /\ hydSerial < MaxHydrations
  /\ Valid(PayChargeInput, [charge_id |-> charge_id, chain_id |-> chain_id])
  /\ Enter("payCharge", [charge_id |-> charge_id.v, chain_id |-> chain_id.n],
           "pay_getDefaultAddress")

\* const walletAddress = await wallet.getDefaultAddress();   (inside the try)
payCharge_getDefaultAddress ==
  /\ pc = "pay_getDefaultAddress"
  /\ \/ \E a \in Addresses :
          /\ walletAddress' = a
          /\ walletLog' = Append(walletLog, WalletCall("getDefaultAddress", TRUE, a))
          /\ pc' = "pay_hydrateCharge"
          /\ UNCHANGED <<hydratedCharge, privateKey, payerWallet, response, payUrl,
                         logs, result, failure, priorHyd>>
     \/ \E e \in WalletErrors :
          /\ failure' = e
          /\ walletLog' = Append(walletLog, WalletCall("getDefaultAddress", FALSE, e))
          /\ CatchRethrow("Error creating charge:", e)
  /\ UNCHANGED <<sessionVars, tool, args, gwLog, hydSerial, networkId>>

\* a hydration request that names the settlement chain instead of args.chain_id
PayHydrateRequest_settlementChain ==
  [charge_id |-> args.charge_id, chain_id |-> SettlementChainId, sender |-> walletAddress]

\* the request of the hydration made by payCharge
PayHydrateRequest ==
  [charge_id |-> args.charge_id, chain_id |-> args.chain_id, sender |-> walletAddress]

\* what the gateway answers to a hydration request: payment instructions bound
\* to the charge, the chain and the sender of the request
Hydration(req, serial, currency) ==
  [id |-> req.charge_id, chainId |-> req.chain_id, sender |-> req.sender,
   serial |-> serial, currency |-> currency]

\* const { data: hydratedCharge } = await commerce.charges.hydrateCharge(...)
payCharge_hydrateCharge ==
  /\ pc = "pay_hydrateCharge"
  /\ \/ \E c \in ExpectedCurrencies :
          LET h == Hydration(PayHydrateRequest, hydSerial + 1, c) IN
          /\ gwLog' = Append(gwLog, GatewayCall("hydrateCharge", PayHydrateRequest, TRUE, h))
          /\ hydratedCharge' = h
          /\ hydSerial' = hydSerial + 1
          /\ pc' = "pay_export"
          /\ UNCHANGED <<walletAddress, privateKey, payerWallet, response, payUrl,
                         logs, result, failure, priorHyd>>
     \/ \E e \in GatewayErrors :
          /\ gwLog' = Append(gwLog, GatewayCall("hydrateCharge", PayHydrateRequest, FALSE, e))
          /\ failure' = e
          /\ CatchRethrow("Error creating charge:", e)
          /\ UNCHANGED hydSerial
  /\ UNCHANGED <<sessionVars, tool, args, networkId, walletLog>>

\* an export step whose failure is swallowed: the handler goes on without a key
payCharge_export_swallowed ==
  /\ pc = "pay_export"
  /\ \/ \E k \in PrivateKeys :
          /\ privateKey' = k
          /\ walletLog' = Append(walletLog, WalletCall("export", TRUE, k))
          /\ logs' = Append(logs, OutLog(k))
          /\ pc' = "pay_createWallet"
          /\ UNCHANGED <<walletAddress, hydratedCharge, payerWallet, response, payUrl,
                         result, failure, priorHyd>>
     \/ \E e \in WalletErrors :
          /\ failure' = e
          /\ walletLog' = Append(walletLog, WalletCall("export", FALSE, e))
          /\ pc' = "pay_createWallet"
          /\ UNCHANGED <<walletAddress, hydratedCharge, privateKey, payerWallet, response,
                         payUrl, logs, result, priorHyd>>
  /\ UNCHANGED <<sessionVars, tool, args, gwLog, hydSerial, networkId>>

\* const privateKey = walletAddress.export(); console.log(privateKey);
payCharge_export ==
  /\ pc = "pay_export"
  /\ \/ \E k \in PrivateKeys :
          /\ privateKey' = k
          /\ walletLog' = Append(walletLog, WalletCall("export", TRUE, k))
          /\ logs' = Append(logs, OutLog(k))
          /\ pc' = "pay_createWallet"
          /\ UNCHANGED <<walletAddress, hydratedCharge, payerWallet, response, payUrl,
                         result, failure, priorHyd>>
     \/ \E e \in WalletErrors :
          /\ failure' = e
          /\ walletLog' = Append(walletLog, WalletCall("export", FALSE, e))
          /\ CatchRethrow("Error creating charge:", e)
  /\ UNCHANGED <<sessionVars, tool, args, gwLog, hydSerial, networkId>>

\* a PayerWallet on the chain of the arguments
CreateWallet_argumentChain(key) ==
  [privateKey |-> key, chainId |-> args.chain_id, account |-> [address |-> AccountAddress(key)]]

\* commerce.wallets.createWallet({ privateKey, chainId: 8453 })
CreateWallet(key) ==
  [privateKey |-> key, chainId |-> SettlementChainId, account |-> [address |-> AccountAddress(key)]]

\* const payerWallet = ...createWallet(...); console.log(payerWallet.account?.address);
payCharge_createWallet ==
  /\ pc = "pay_createWallet"
  /\ payerWallet' = CreateWallet(privateKey)
  /\ logs' = Append(logs, OutLog(CreateWallet(privateKey).account.address))
  /\ pc' = "pay_payCharge"
  /\ UNCHANGED <<sessionVars, tool, args, walletAddress, hydratedCharge, privateKey, response, payUrl,
                 gwLog, result, failure, hydSerial, priorHyd, networkId, walletLog>>

\* the argument of commerce.charges.payCharge
PayRequest ==
  [walletClient |-> payerWallet, charge |-> hydratedCharge, currency |-> USDC_CURRENCY]

TransactionHashes == {"0xtx1", "0xtx2"}

\* a payment call that is made again after it failed
payCharge_payCharge_retry ==
  /\ pc = "pay_payCharge"
  /\ \/ \E tx \in TransactionHashes :
          /\ gwLog' = Append(gwLog, GatewayCall("payCharge", PayRequest, TRUE,
                                                [transactionHash |-> tx]))
          /\ response' = [transactionHash |-> tx]
          /\ pc' = "pay_return"
          /\ UNCHANGED <<walletAddress, hydratedCharge, privateKey, payerWallet, payUrl,
                         logs, result, failure, priorHyd>>
     \/ \E e \in GatewayErrors :
          /\ gwLog' = Append(gwLog, GatewayCall("payCharge", PayRequest, FALSE, e))
          /\ failure' = e
          /\ IF Len(gwLog) < 2
               THEN UNCHANGED <<pc, walletAddress, hydratedCharge, privateKey, payerWallet,
                                response, payUrl, logs, result, priorHyd>>
               ELSE CatchRethrow("Error creating charge:", e)
  /\ UNCHANGED <<sessionVars, tool, args, hydSerial, networkId, walletLog>>

\* const { transactionHash } = await commerce.charges.payCharge({...})
payCharge_payCharge ==
  /\ pc = "pay_payCharge"
  /\ \/ \E tx \in TransactionHashes :
          /\ gwLog' = Append(gwLog, GatewayCall("payCharge", PayRequest, TRUE,
                                                [transactionHash |-> tx]))
          /\ response' = [transactionHash |-> tx]
          /\ pc' = "pay_return"
          /\ UNCHANGED <<walletAddress, hydratedCharge, privateKey, payerWallet, payUrl,
                         logs, result, failure, priorHyd>>
     \/ \E e \in GatewayErrors :
          /\ gwLog' = Append(gwLog, GatewayCall("payCharge", PayRequest, FALSE, e))
          /\ failure' = e
          /\ CatchRethrow("Error creating charge:", e)
  /\ UNCHANGED <<sessionVars, tool, args, hydSerial, networkId, walletLog>>

\* return `Successfully paid charge: Transaction Hash: ${transactionHash}`
payCharge_return ==
  /\ pc = "pay_return"
  /\ Leave(Returned([text |-> "Successfully paid charge",
                     transactionHash |-> response.transactionHash]))
  /\ UNCHANGED <<sessionVars, tool, args, gwLog, logs, failure, hydSerial, networkId, walletLog>>

----------------------------------------------------------------------------
(* hydrateCharge, chatbot.ts 176-196 *)

\* charge_id and chain_id are raw values that pass HydrateChargeInput
hydrateCharge_enter(charge_id, chain_id) ==
  /\ ~Running
  /\ hydSerial < MaxHydrations
  /\ Valid(HydrateChargeInput, [charge_id |-> charge_id, chain_id |-> chain_id])
  /\ Enter("hydrateCharge", [charge_id |-> charge_id.v, chain_id |-> chain_id.n],
           "hyd_getDefaultAddress")

\* const walletAddress = await wallet.getDefaultAddress();   (before the try)
hydrateCharge_getDefaultAddress ==
  /\ pc = "hyd_getDefaultAddress"
  /\ \/ \E a \in Addresses :
          /\ walletAddress' = a
          /\ walletLog' = Append(walletLog, WalletCall("getDefaultAddress", TRUE, a))
          /\ pc' = "hyd_hydrateCharge"
          /\ UNCHANGED <<hydratedCharge, privateKey, payerWallet, response, payUrl,
                         result, failure, priorHyd>>
     \/ \E e \in WalletErrors :
          /\ failure' = e
          /\ walletLog' = Append(walletLog, WalletCall("getDefaultAddress", FALSE, e))
          /\ Leave(Raised(e))
  /\ UNCHANGED <<sessionVars, tool, args, gwLog, logs, hydSerial, networkId>>

\* a hydration request whose sender is a fixed address instead of the resolved one
HydrateRequest_fixedSender ==
  [charge_id |-> args.charge_id, chain_id |-> args.chain_id, sender |-> "0xA11ce"]

\* the request of commerce.charges.hydrateCharge(args.charge_id, {chain_id, sender})
HydrateRequest ==
  [charge_id |-> args.charge_id, chain_id |-> args.chain_id, sender |-> walletAddress]

\* const { data: response } = await commerce.charges.hydrateCharge(...)
hydrateCharge_hydrateCharge ==
  /\ pc = "hyd_hydrateCharge"
  /\ \/ \E c \in ExpectedCurrencies :
          LET h == Hydration(HydrateRequest, hydSerial + 1, c) IN
          /\ gwLog' = Append(gwLog, GatewayCall("hydrateCharge", HydrateRequest, TRUE, h))
          /\ hydratedCharge' = h
          /\ hydSerial' = hydSerial + 1
          /\ pc' = "hyd_return"
          /\ UNCHANGED <<walletAddress, privateKey, payerWallet, response, payUrl,
                         logs, result, failure, priorHyd>>
     \/ \E e \in GatewayErrors :
          /\ gwLog' = Append(gwLog, GatewayCall("hydrateCharge", HydrateRequest, FALSE, e))
          /\ failure' = e
          /\ CatchRethrow("Error creating charge:", e)
          /\ UNCHANGED hydSerial
  /\ UNCHANGED <<sessionVars, tool, args, networkId, walletLog>>

\* return `Successfully hydrated charge: Web3 Data: ${JSON.stringify(web3Data)}`
hydrateCharge_return ==
  /\ pc = "hyd_return"
  /\ Leave(Returned([text |-> "Successfully hydrated charge", web3Data |-> hydratedCharge]))
  /\ UNCHANGED <<sessionVars, tool, args, gwLog, logs, failure, hydSerial, networkId, walletLog>>

----------------------------------------------------------------------------
(* createCharge, chatbot.ts 55-80 *)

Names == {"Coffee", "Tea"}
Descriptions == {"Large coffee"}
Amounts == {"5.99", "10"}
CurrencyCodes == {"USD", "EUR"}
PricingTypes == {"fixed_price", "no_price"}
HostedUrls == {"https://commerce.coinbase.com/pay/1"}

LocalPrices == [amount : Amounts, currency : CurrencyCodes]

\* the args object of create_charge and create_checkout, as the schema admits it
CreateChargeArgs ==
  [name : Names, description : Descriptions, amount : Amounts,
   currency : CurrencyCodes, pricing_type : PricingTypes]

\* the charges the gateway may answer a creation with
CreatedCharges ==
  [name : Names, description : Descriptions, pricing : [local : LocalPrices],
   hostedUrl : HostedUrls]

\* a schema that takes any string as pricing_type
CreateChargeInput_anyPricing ==
  [name |-> ZString, description |-> ZString, amount |-> ZString, currency |-> ZString,
   pricing_type |-> ZString]

\* const CreateChargeInput = z.object({ name, description, amount, currency:
\* z.string(), pricing_type: z.enum(["fixed_price", "no_price"]) })
CreateChargeInput ==
  [name |-> ZString, description |-> ZString, amount |-> ZString, currency |-> ZString,
   pricing_type |-> ZEnum({"fixed_price", "no_price"})]

\* an args object as raw input
RawCharge(a) ==
  [name |-> Str(a.name), description |-> Str(a.description), amount |-> Str(a.amount),
   currency |-> Str(a.currency), pricing_type |-> Str(a.pricing_type)]

\* the args object of a raw input
ChargeArgs(raw) ==
  [name |-> raw.name.v, description |-> raw.description.v, amount |-> raw.amount.v,
   currency |-> raw.currency.v, pricing_type |-> raw.pricing_type.v]

\* the raw inputs a caller may give create_charge: the ones the schema admits,
\* one with an unknown pricing type, one without amount, one with a numeric name
RawCreateChargeInputs ==
  LET ok == RawCharge([name |-> "Coffee", description |-> "Large coffee", amount |-> "5.99",
                       currency |-> "USD", pricing_type |-> "fixed_price"]) IN
  {RawCharge(a) : a \in CreateChargeArgs}
    \cup {[ok EXCEPT !.pricing_type = Str("weird_price")],
          [ok EXCEPT !.amount = Undefined],
          [ok EXCEPT !.name = Num(7)]}

\* a is a raw input that passes CreateChargeInput
createCharge_enter(a) ==
  /\ ~Running
  /\ Valid(CreateChargeInput, a)
  /\ Enter("createCharge", ChargeArgs(a), "cc_createCharge")

\* a request whose currency is fixed instead of taken from the args
CreateChargeRequest_usdOnly ==
  [local_price |-> [amount |-> args.amount, currency |-> "USD"],
   pricing_type |-> args.pricing_type]

\* the argument of commerce.charges.createCharge
CreateChargeRequest ==
  [local_price |-> [amount |-> args.amount, currency |-> args.currency],
   pricing_type |-> args.pricing_type]

\* the template string createCharge returns
CreateChargeSummary(data) ==
  [text |-> "Successfully created charge",
   name |-> data.name,
   description |-> data.description,
   amount |-> data.pricing.local.amount,
   currency |-> data.pricing.local.currency,
   hostedUrl |-> data.hostedUrl]

\* const { data: response } = await commerce.charges.createCharge({...})
createCharge_createCharge ==
  /\ pc = "cc_createCharge"
  /\ \/ \E ch \in CreatedCharges :
          /\ gwLog' = Append(gwLog, GatewayCall("createCharge", CreateChargeRequest, TRUE, ch))
          /\ response' = ch
          /\ pc' = "cc_return"
          /\ UNCHANGED <<walletAddress, hydratedCharge, privateKey, payerWallet, payUrl,
                         logs, result, failure, priorHyd>>
     \/ \E e \in GatewayErrors :
          /\ gwLog' = Append(gwLog, GatewayCall("createCharge", CreateChargeRequest, FALSE, e))
          /\ failure' = e
          /\ CatchRethrow("Error creating charge:", e)
  /\ UNCHANGED <<sessionVars, tool, args, hydSerial, networkId, walletLog>>

createCharge_return ==
  /\ pc = "cc_return"
  /\ Leave(Returned(CreateChargeSummary(response)))
  /\ UNCHANGED <<sessionVars, tool, args, gwLog, logs, failure, hydSerial, networkId, walletLog>>

----------------------------------------------------------------------------
(* createCharge of the fetch-based variant, part_000 69-113 *)

COMMERCE_API_URL == "https://api.commerce.coinbase.com/charges"

StatusTexts == {"Unauthorized"}

createChargeFetch_enter(a) ==
  /\ ~Running
  /\ Enter("createChargeFetch", a, "ccf_fetch")

\* const params: ChargeRequest = {...}
ChargeRequestParams ==
  [name |-> args.name, description |-> args.description,
   pricing_type |-> args.pricing_type,
   local_price |-> [amount |-> args.amount, currency |-> args.currency]]

\* the template string of the fetch-based createCharge (hosted_url)
CreateChargeFetchSummary(data) ==
  [text |-> "Successfully created charge",
   name |-> data.name,
   description |-> data.description,
   amount |-> data.pricing.local.amount,
   currency |-> data.pricing.local.currency,
   hostedUrl |-> data.hostedUrl]

\* const response = await fetch(COMMERCE_API_URL, {method: "POST", ...});
\* if (!response.ok) throw new Error(`Failed to create charge: ${statusText}`)
createChargeFetch_fetch ==
  /\ pc = "ccf_fetch"
  /\ LET req == [url |-> COMMERCE_API_URL, body |-> ChargeRequestParams] IN
     \/ /\ gwLog' = Append(gwLog, GatewayCall("createCharge", req, TRUE, [ok |-> TRUE]))
        /\ pc' = "ccf_json"
        /\ UNCHANGED <<walletAddress, hydratedCharge, privateKey, payerWallet, response,
                       payUrl, logs, result, failure, priorHyd>>
     \/ \E st \in StatusTexts :
          LET e == [error |-> "Error", detail |-> <<"Failed to create charge: ", st>>] IN
          /\ gwLog' = Append(gwLog, GatewayCall("createCharge", req, FALSE, [ok |-> FALSE]))
          /\ failure' = e
          /\ CatchRethrow("Error creating charge:", e)
     \/ \E e \in GatewayErrors :
          /\ gwLog' = Append(gwLog, GatewayCall("createCharge", req, FALSE, e))
          /\ failure' = e
          /\ CatchRethrow("Error creating charge:", e)
  /\ UNCHANGED <<sessionVars, tool, args, hydSerial, networkId, walletLog>>

\* const data = await response.json(); return `...`
createChargeFetch_json ==
  /\ pc = "ccf_json"
  /\ \/ \E ch \in CreatedCharges :
          /\ Leave(Returned(CreateChargeFetchSummary(ch)))
          /\ gwLog' = [gwLog EXCEPT ![Len(gwLog)].resp = ch]
          /\ UNCHANGED <<logs, failure>>
     \/ LET e == [error |-> "SyntaxError", detail |-> "json"] IN
          /\ failure' = e
          /\ CatchRethrow("Error creating charge:", e)
          /\ UNCHANGED gwLog
  /\ UNCHANGED <<sessionVars, tool, args, hydSerial, networkId, walletLog>>

----------------------------------------------------------------------------
(* createCheckout, chatbot.ts 129-156 *)

CreatedCheckouts ==
  [name : Names, description : Descriptions, local_price : LocalPrices]

createCheckout_enter(a) ==
  /\ ~Running
  /\ Enter("createCheckout", a, "co_createCheckout")

\* the argument of commerce.checkouts.createCheckout
CreateCheckoutRequest ==
  [local_price |-> [amount |-> args.amount, currency |-> args.currency],
   pricing_type |-> args.pricing_type]

CreateCheckoutSummary(data) ==
  [text |-> "Successfully created checkout",
   name |-> data.name,
   description |-> data.description,
   amount |-> data.local_price.amount,
   currency |-> data.local_price.currency]

createCheckout_createCheckout ==
  /\ pc = "co_createCheckout"
  /\ \/ \E co \in CreatedCheckouts :
          /\ gwLog' = Append(gwLog, GatewayCall("createCheckout", CreateCheckoutRequest, TRUE, co))
          /\ Leave(Returned(CreateCheckoutSummary(co)))
          /\ UNCHANGED <<logs, failure>>
     \/ \E e \in GatewayErrors :
          /\ gwLog' = Append(gwLog, GatewayCall("createCheckout", CreateCheckoutRequest, FALSE, e))
          /\ failure' = e
          /\ CatchRethrow("Error creating checkout:", e)
  /\ UNCHANGED <<sessionVars, tool, args, hydSerial, networkId, walletLog>>

----------------------------------------------------------------------------
(* getCharges, chatbot.ts 93-102 *)

Timelines == {<<>>, <<[status |-> "NEW"]>>, <<[status |-> "NEW"], [status |-> "COMPLETED"]>>}
ListedPrices == {[amount |-> "5.99", currency |-> "USD"], [amount |-> "10", currency |-> "EUR"]}
ListedCharges == [id : ChargeIds, pricing : [local : ListedPrices], timeline : Timelines]

SeqsUpTo(S, n) == UNION {[1..k -> S] : k \in 0..n}

TypeError == [error |-> "TypeError", detail |-> "Cannot read properties of undefined"]

\* the first element of the timeline instead of the last
LastEvent_first(timeline) ==
  IF Len(timeline) >= 1 THEN <<timeline[1]>> ELSE <<>>

\* charge.timeline[charge.timeline.length - 1]: undefined past the ends
LastEvent(timeline) ==
  IF Len(timeline) - 1 >= 0 THEN <<timeline[(Len(timeline) - 1) + 1]>> ELSE <<>>

\* `${charge.id}: ${amount} ${currency} ${status}`
ChargeLine(charge) ==
  [id |-> charge.id,
   amount |-> charge.pricing.local.amount,
   currency |-> charge.pricing.local.currency,
   status |-> LastEvent(charge.timeline)[1].status]

\* reading .status of undefined raises a TypeError
ChargeLineThrows(charge) == LastEvent(charge.timeline) = <<>>

getCharges_enter ==
  /\ ~Running
  /\ Enter("getCharges", None, "gc_getCharges")

\* const { data: response } = await commerce.charges.getCharges()
getCharges_getCharges ==
  /\ pc = "gc_getCharges"
  /\ \/ \E cs \in SeqsUpTo(ListedCharges, MaxCharges) :
          /\ gwLog' = Append(gwLog, GatewayCall("getCharges", None, TRUE, cs))
          /\ response' = [data |-> cs]
          /\ pc' = "gc_return"
          /\ UNCHANGED <<walletAddress, hydratedCharge, privateKey, payerWallet, payUrl,
                         logs, result, failure, priorHyd>>
     \/ \E e \in GatewayErrors :
          /\ gwLog' = Append(gwLog, GatewayCall("getCharges", None, FALSE, e))
          /\ failure' = e
          /\ CatchRethrow("Error creating charge:", e)
  /\ UNCHANGED <<sessionVars, tool, args, hydSerial, networkId, walletLog>>

\* return `Your charges are:\n${response.data.map(...).join("\n")}`
getCharges_return ==
  /\ pc = "gc_return"
  /\ IF \E i \in 1..Len(response.data) : ChargeLineThrows(response.data[i])
       THEN CatchRethrow("Error creating charge:", TypeError)
       ELSE /\ Leave(Returned([text |-> "Your charges are:",
                               lines |-> [i \in 1..Len(response.data) |->
                                            ChargeLine(response.data[i])]]))
            /\ UNCHANGED logs
  /\ UNCHANGED <<sessionVars, tool, args, gwLog, failure, hydSerial, networkId, walletLog>>

----------------------------------------------------------------------------
(* createWebhook and getWebhooks, chatbot.ts 272-310 *)

WebhookUrls == {"https://example.com/hook", "https://example.org/hook"}
WebhookLists ==
  {<<>>, <<[id |-> "wh_1", url |-> "https://example.com/hook"]>>,
   <<[id |-> "wh_1", url |-> "https://example.com/hook"],
     [id |-> "wh_2", url |-> "https://example.org/hook"]>>}

createWebhook_enter(url) ==
  /\ ~Running
  /\ Enter("createWebhook", [url |-> url], "wh_createWebhook")

\* await commerce.webhooks.createWebhook({ url: args.url }); return `...`
createWebhook_createWebhook ==
  /\ pc = "wh_createWebhook"
  /\ LET req == [url |-> args.url] IN
     \/ /\ gwLog' = Append(gwLog, GatewayCall("createWebhook", req, TRUE, None))
        /\ Leave(Returned([text |-> "Successfully created webhook:", url |-> args.url]))
        /\ UNCHANGED <<logs, failure>>
     \/ \E e \in GatewayErrors :
          /\ gwLog' = Append(gwLog, GatewayCall("createWebhook", req, FALSE, e))
          /\ failure' = e
          /\ CatchRethrow("Error creating webhook:", e)
  /\ UNCHANGED <<sessionVars, tool, args, hydSerial, networkId, walletLog>>

getWebhooks_enter ==
  /\ ~Running
  /\ Enter("getWebhooks", None, "wh_getWebhooks")

\* const { data: response } = await commerce.webhooks.getWebhooks(); return `...`
getWebhooks_getWebhooks ==
  /\ pc = "wh_getWebhooks"
  /\ \/ \E ws \in WebhookLists :
          /\ gwLog' = Append(gwLog, GatewayCall("getWebhooks", None, TRUE, ws))
          /\ Leave(Returned([text |-> "Your webhooks are:",
                             lines |-> [i \in 1..Len(ws) |->
                                          [id |-> ws[i].id, url |-> ws[i].url]]]))
          /\ UNCHANGED <<logs, failure>>
     \/ \E e \in GatewayErrors :
          /\ gwLog' = Append(gwLog, GatewayCall("getWebhooks", None, FALSE, e))
          /\ failure' = e
          /\ CatchRethrow("Error creating webhook:", e)
  /\ UNCHANGED <<sessionVars, tool, args, hydSerial, networkId, walletLog>>

----------------------------------------------------------------------------
(* createPayLink, chatbot.ts 331-368 and part_000 139-176 *)

\* the blockchain argument is any string: some hold characters that JSON or a
\* query string reserve
Blockchains ==
  {"base", "ethereum", "base sepolia", "a+b", "say \"hi\"", "50%&x=y", "c\\d"}

REJECTION == "Error: Wallet is not on the Base Sepolia network, use the faucet instead"

createPayLink_enter(blockchain) ==
  /\ ~Running
  /\ Enter("createPayLink", [blockchain |-> blockchain], "pl_getDefaultAddress")

\* const address = (await wallet.getDefaultAddress()).getId();
createPayLink_getDefaultAddress ==
  /\ pc = "pl_getDefaultAddress"
  /\ \/ \E a \in Addresses :
          /\ walletAddress' = a
          /\ walletLog' = Append(walletLog, WalletCall("getDefaultAddress", TRUE, a))
          /\ pc' = "pl_checkNetwork"
          /\ UNCHANGED <<hydratedCharge, privateKey, payerWallet, response, payUrl,
                         logs, result, failure, priorHyd>>
     \/ \E e \in WalletErrors :
          /\ failure' = e
          /\ walletLog' = Append(walletLog, WalletCall("getDefaultAddress", FALSE, e))
          /\ CatchRethrow("Error creating pay link:", e)
  /\ UNCHANGED <<sessionVars, tool, args, gwLog, hydSerial, networkId>>

\* the check made against the production network instead
OnTestNetwork_mainnet(id) == id = "base-mainnet"

\* if (wallet.getNetworkId() == "base-sepolia")
OnTestNetwork(id) == id = "base-sepolia"

\* console.log(wallet.getNetworkId()); if (...) return "Error: ..."
createPayLink_checkNetwork ==
  /\ pc = "pl_checkNetwork"
  /\ logs' = Append(logs, OutLog(networkId))
  /\ walletLog' = walletLog \o <<WalletCall("getNetworkId", TRUE, networkId),
                                  WalletCall("getNetworkId", TRUE, networkId)>>
  /\ IF OnTestNetwork(networkId)
       THEN Leave(Returned([text |-> REJECTION]))
       ELSE /\ pc' = "pl_buildUrl"
            /\ UNCHANGED <<walletAddress, hydratedCharge, privateKey, payerWallet,
                           response, payUrl, result, priorHyd>>
  /\ UNCHANGED <<sessionVars, tool, args, gwLog, failure, hydSerial, networkId>>

\* the characters of a string: a run of letters and digits is one element, every
\* other character an element of its own
Chars(str) ==
  CASE str = "base sepolia" -> <<"base", " ", "sepolia">>
    [] str = "a+b" -> <<"a", "+", "b">>
    [] str = "say \"hi\"" -> <<"say", " ", "\"", "hi", "\"">>
    [] str = "50%&x=y" -> <<"50", "%", "&", "x", "=", "y">>
    [] str = "c\\d" -> <<"c", "\\", "d">>
    [] OTHER -> <<str>>

RECURSIVE JsonEscape(_)
\* the characters of a JSON string literal's body: quote and backslash escaped
JsonEscape(chars) ==
  IF chars = <<>> THEN <<>>
  ELSE (IF Head(chars) \in {"\"", "\\"} THEN <<"\\", Head(chars)>> ELSE <<Head(chars)>>)
         \o JsonEscape(Tail(chars))

JsonQuote(chars) == <<"\"">> \o JsonEscape(chars) \o <<"\"">>

\* JSON.stringify({ [address]: [blockchain] }), as its characters
JsonStringify(address, blockchain) ==
  <<"{">> \o JsonQuote(Chars(address)) \o <<":", "[">>
          \o JsonQuote(Chars(blockchain)) \o <<"]", "}">>

\* a serialisation that leaves "+" as it is, as encodeURI does
PercentEncode_plusKept(c) ==
  CASE c = "{" -> "%7B"
    [] c = "}" -> "%7D"
    [] c = "\"" -> "%22"
    [] c = ":" -> "%3A"
    [] c = "[" -> "%5B"
    [] c = "]" -> "%5D"
    [] c = "\\" -> "%5C"
    [] c = " " -> "+"
    [] c = "%" -> "%25"
    [] c = "&" -> "%26"
    [] c = "=" -> "%3D"
    [] OTHER -> c

\* the application/x-www-form-urlencoded serialisation of one element
PercentEncode(c) ==
  CASE c = "{" -> "%7B"
    [] c = "}" -> "%7D"
    [] c = "\"" -> "%22"
    [] c = ":" -> "%3A"
    [] c = "[" -> "%5B"
    [] c = "]" -> "%5D"
    [] c = "\\" -> "%5C"
    [] c = " " -> "+"
    [] c = "+" -> "%2B"
    [] c = "%" -> "%25"
    [] c = "&" -> "%26"
    [] c = "=" -> "%3D"
    [] OTHER -> c

UrlEncode(chars) == [i \in 1..Len(chars) |-> PercentEncode(chars[i])]

\* payUrl.toString(): base?name=value&name=value
UrlToString(u) ==
  <<u.base, "?">> \o <<u.search[1].name, "=">> \o u.search[1].value
                  \o <<"&", u.search[2].name, "=">> \o u.search[2].value

\* const payUrl = new URL(PAY_BASE_URL); searchParams.append(...) twice
createPayLink_buildUrl ==
  /\ pc = "pl_buildUrl"
  /\ payUrl' = [base |-> PAY_BASE_URL,
                search |-> <<[name |-> "appId", value |-> UrlEncode(<<PROJECT_ID>>)],
                             [name |-> "addresses",
                              value |-> UrlEncode(JsonStringify(walletAddress,
                                                                args.blockchain))]>>]
  /\ pc' = "pl_return"
  /\ UNCHANGED <<sessionVars, tool, args, walletAddress, hydratedCharge, privateKey, payerWallet,
                 response, gwLog, logs, result, failure, hydSerial, priorHyd, networkId, walletLog>>

\* return `Generated Coinbase Pay Link: URL: ${payUrl.toString()} ...`
createPayLink_return ==
  /\ pc = "pl_return"
  /\ Leave(Returned([text |-> "Generated Coinbase Pay Link:", url |-> UrlToString(payUrl),
                     walletAddress |-> walletAddress, blockchain |-> args.blockchain]))
  /\ UNCHANGED <<sessionVars, tool, args, gwLog, logs, failure, hydSerial, networkId, walletLog>>

----------------------------------------------------------------------------
(* Invocation of a tool with input its schema rejects *)

\* the schema of a tool, by the tool's name
ToolSchema(name) ==
  CASE name = "create_charge" -> CreateChargeInput
    [] name = "hydrate_charge" -> HydrateChargeInput
    [] name = "pay_charge" -> PayChargeInput

\* the raw inputs a caller may give a tool
RawInputs(name) ==
  IF name = "create_charge" THEN RawCreateChargeInputs
  ELSE [charge_id : RawChargeIds, chain_id : RawChainIds]

\* the tool answers input that fails its schema with a validation error; its
\* handler is not called
invoke_rejected(name, raw) ==
  /\ ~Running
  /\ ~Valid(ToolSchema(name), raw)
  /\ tool' = "invoke"
  /\ args' = [name |-> name, input |-> raw]
  /\ pc' = "done"
  /\ result' = Raised(ValidationError(name))
  /\ walletAddress' = "none"
  /\ hydratedCharge' = None
  /\ privateKey' = "none"
  /\ payerWallet' = None
  /\ response' = None
  /\ payUrl' = None
  /\ gwLog' = <<>>
  /\ logs' = <<>>
  /\ failure' = None
  /\ walletLog' = <<>>
  /\ priorHyd' = IF LastHydration(gwLog) # None
                   THEN [chainId |-> LastHydration(gwLog).chainId,
                         serial |-> LastHydration(gwLog).serial]
                   ELSE priorHyd
  /\ UNCHANGED <<sessionVars, hydSerial, networkId>>

----------------------------------------------------------------------------
(* main, initializeAgent, chooseMode, runChatMode and runAutonomousMode,
   chatbot.ts 375-683 *)

\* what a failing call throws: an Error object, or a value that is not one
ThrownValues ==
  {[isError |-> TRUE, message |-> "request failed"],
   [isError |-> FALSE, message |-> "rejected"]}

\* process.exit(1)
FailureExitCode == 1

\* the tools cdpToolkit.getTools() may return, by name
ToolkitTools ==
  {<<"get_wallet_details">>, <<"get_wallet_details", "create_charge">>}

\* the names of the tools initializeAgent pushes, in order (chatbot.ts)
PushedTools ==
  <<"create_webhook", "get_webhooks", "create_charge", "get_charges",
    "create_checkout", "hydrate_charge", "pay_charge", "create_pay_link">>

\* the names of the tools the earlier variant pushes (part_000)
PushedToolsFetch == <<"create_charge", "create_pay_link">>

\* lines of the terminal: a word is one element, a space an element of its own
InputLines == {<<"exit">>, <<"Exit">>, <<"EXIT">>, <<"exit", " ">>, <<"hi">>}
ChoiceLines == {<<"1">>, <<"Chat", " ">>, <<"2">>, <<" ", "AUTO">>, <<"x">>}

\* String.prototype.toLowerCase on one element
ToLowerCase(word) ==
  CASE word = "Exit" -> "exit"
    [] word = "EXIT" -> "exit"
    [] word = "Chat" -> "chat"
    [] word = "AUTO" -> "auto"
    [] OTHER -> word

LowerLine(line) == [i \in 1..Len(line) |-> ToLowerCase(line[i])]

RECURSIVE TrimStart(_)
TrimStart(line) ==
  IF line # <<>> /\ Head(line) = " " THEN TrimStart(Tail(line)) ELSE line

RECURSIVE TrimEnd(_)
TrimEnd(line) ==
  IF line # <<>> /\ line[Len(line)] = " "
    THEN TrimEnd(SubSeq(line, 1, Len(line) - 1)) ELSE line

\* String.prototype.trim
Trim(line) == TrimEnd(TrimStart(line))

\* a comparison with "exit" that keeps the case of the line
IsExit_caseSensitive(line) == line = <<"exit">>

\* userInput.toLowerCase() === "exit"
IsExit(line) == LowerLine(line) = <<"exit">>

\* the prompt of every autonomous turn
THOUGHT == <<"Be creative and do something interesting on the blockchain. Choose an action or set of actions and execute it that highlights your abilities.">>

\* new HumanMessage(content)
HumanMessage(content) == [content |-> content]

\* the chunks a stream may yield: the node that produced the chunk and the
\* contents of its messages
Chunks ==
  {[node |-> "agent", messages |-> <<"thinking">>],
   [node |-> "tools", messages |-> <<"tool output", "second tool output">>],
   [node |-> "other", messages |-> <<>>]}

Streams == SeqsUpTo(Chunks, MaxEvents)

SEPARATOR == "-------------------"

\* the body of the for-await loop: what one chunk writes to the console
RenderChunk(chunk) ==
  IF chunk.node \in {"agent", "tools"} THEN <<chunk.messages[1], SEPARATOR>> ELSE <<SEPARATOR>>

\* the process ends with the given status
Exit(code) ==
  /\ lpc' = "exited"
  /\ exitCode' = code

\* a bootstrap whose failure is logged and then passed over
InitFail_continues(e) ==
  /\ errOut' = Append(errOut, ErrorLog("Failed to initialize agent:", e))
  /\ thrown' = [phase |-> "bootstrap", value |-> e]
  /\ lpc' = "chooseMode"
  /\ UNCHANGED exitCode

\* initializeAgent: catch (error) { console.error("Failed to initialize agent:", error);
\* throw error; } and then main: catch (error) { if (error instanceof Error)
\* console.error("Error:", error.message); process.exit(1); }
InitFail(e) ==
  /\ errOut' = Append(errOut, ErrorLog("Failed to initialize agent:", e))
                 \o (IF e.isError THEN <<ErrorLog("Error:", [message |-> e.message])>> ELSE <<>>)
  /\ thrown' = [phase |-> "bootstrap", value |-> e]
  /\ Exit(FailureExitCode)

\* a catch block that logs the error and lets the loop go on
TurnFail_continues(e, retry) ==
  /\ errOut' = IF e.isError
                 THEN Append(errOut, ErrorLog("Error:", [message |-> e.message]))
                 ELSE errOut
  /\ thrown' = [phase |-> "turn", value |-> e]
  /\ inFlight' = 0
  /\ lpc' = retry
  /\ UNCHANGED exitCode

\* a catch block that ends the process with status 0
TurnFail_cleanExit(e, retry) ==
  /\ errOut' = IF e.isError
                 THEN Append(errOut, ErrorLog("Error:", [message |-> e.message]))
                 ELSE errOut
  /\ thrown' = [phase |-> "turn", value |-> e]
  /\ inFlight' = 0
  /\ Exit(0)

\* the catch of both run loops: catch (error) { if (error instanceof Error)
\* console.error("Error:", error.message); process.exit(1); }
\* retry is the position of the loop's next iteration, which the catch never takes
TurnFail(e, retry) ==
  /\ errOut' = IF e.isError
                 THEN Append(errOut, ErrorLog("Error:", [message |-> e.message]))
                 ELSE errOut
  /\ thrown' = [phase |-> "turn", value |-> e]
  /\ inFlight' = 0
  /\ Exit(FailureExitCode)

\* main is called
main_start ==
  /\ lpc = "start"
  /\ lpc' = "boot_readWallet"
  /\ UNCHANGED <<toolVars, mode, exitCode, walletDataStr, config, tools, rlOpen, inputs, submitted,
                 inFlight, emitted, consumed, rendered, errOut, thrown>>

\* the contents the wallet data file may have: a saved wallet, or nothing
WalletFileContents == {"wallet data", ""}

\* a bootstrap that treats a failed read of the wallet data file as fatal
initializeAgent_readWallet_fatal ==
  /\ lpc = "boot_readWallet"
  /\ \/ /\ lpc' = "boot_configure"
        /\ UNCHANGED <<walletDataStr, errOut, exitCode, thrown>>
     \/ \E data \in WalletFileContents :
          /\ walletDataStr' = data
          /\ lpc' = "boot_configure"
          /\ UNCHANGED <<errOut, exitCode, thrown>>
     \/ \E e \in ThrownValues :
          /\ InitFail(e)
          /\ UNCHANGED walletDataStr
  /\ UNCHANGED <<toolVars, mode, config, tools, rlOpen, inputs, submitted,
                 inFlight, emitted, consumed, rendered>>

\* if (fs.existsSync(WALLET_DATA_FILE)) { try { walletDataStr = fs.readFileSync(...) }
\* catch (error) { console.error("Error reading wallet data:", error); } }
initializeAgent_readWallet ==
  /\ lpc = "boot_readWallet"
  /\ \/ /\ lpc' = "boot_configure"
        /\ UNCHANGED <<walletDataStr, errOut, exitCode, thrown>>
     \/ \E data \in WalletFileContents :
          /\ walletDataStr' = data
          /\ lpc' = "boot_configure"
          /\ UNCHANGED <<errOut, exitCode, thrown>>
     \/ \E e \in ThrownValues :
          /\ errOut' = Append(errOut, ErrorLog("Error reading wallet data:", e))
          /\ lpc' = "boot_configure"
          /\ UNCHANGED <<walletDataStr, exitCode, thrown>>
  /\ UNCHANGED <<toolVars, mode, config, tools, rlOpen, inputs, submitted,
                 inFlight, emitted, consumed, rendered>>

\* const config = { cdpWalletData: walletDataStr || undefined,
\*                  networkId: process.env.NETWORK_ID || "base-sepolia" }
AgentkitConfig ==
  [cdpWalletData |-> IF walletDataStr \in {"null", ""} THEN "undefined" ELSE walletDataStr,
   networkId |-> networkId]

\* const agentkit = await CdpAgentkit.configureWithWallet(config);
initializeAgent_configureWithWallet ==
  /\ lpc = "boot_configure"
  /\ config' = AgentkitConfig
  /\ \/ /\ lpc' = "boot_tools"
        /\ UNCHANGED <<exitCode, errOut, thrown>>
     \/ \E e \in ThrownValues : InitFail(e)
  /\ UNCHANGED <<toolVars, mode, walletDataStr, tools, rlOpen, inputs, submitted,
                 inFlight, emitted, consumed, rendered>>

\* tools.push(tool): the array takes the tool whatever its name
Push(list, names) == list \o names

\* const tools = cdpToolkit.getTools(); tools.push(...) for every commerce tool;
\* const agent = createReactAgent({ llm, tools, ... })
initializeAgent_tools ==
  /\ lpc = "boot_tools"
  /\ \/ \E kit \in ToolkitTools, pushed \in {PushedTools, PushedToolsFetch} :
          /\ tools' = Push(kit, pushed)
          /\ lpc' = "boot_export"
          /\ UNCHANGED <<exitCode, errOut, thrown>>
     \/ \E e \in ThrownValues :
          /\ InitFail(e)
          /\ UNCHANGED tools
  /\ UNCHANGED <<toolVars, mode, walletDataStr, config, rlOpen, inputs, submitted,
                 inFlight, emitted, consumed, rendered>>

\* const exportedWallet = await agentkit.exportWallet();
\* fs.writeFileSync(WALLET_DATA_FILE, exportedWallet); return { agent, config }
initializeAgent_exportWallet ==
  /\ lpc = "boot_export"
  /\ \/ /\ lpc' = "chooseMode"
        /\ rlOpen' = rlOpen \cup {"chooseMode"}
        /\ UNCHANGED <<exitCode, errOut, thrown>>
     \/ \E e \in ThrownValues :
          /\ InitFail(e)
          /\ UNCHANGED rlOpen
  /\ UNCHANGED <<toolVars, mode, walletDataStr, config, tools, inputs, submitted,
                 inFlight, emitted, consumed, rendered>>

\* const choice = (await question(...)).toLowerCase().trim(); "1" or "chat" gives
\* chat, "2" or "auto" gives auto, anything else asks again.  The mode it returns
\* starts runChatMode (which opens its readline interface) or runAutonomousMode.
chooseMode_question ==
  /\ lpc = "chooseMode"
  /\ \E line \in ChoiceLines :
       LET choice == Trim(LowerLine(line)) IN
       IF choice \in {<<"1">>, <<"chat">>}
         THEN /\ mode' = "chat"
              /\ rlOpen' = (rlOpen \ {"chooseMode"}) \cup {"runChatMode"}
              /\ lpc' = "chat_question"
       ELSE IF choice \in {<<"2">>, <<"auto">>}
         THEN /\ mode' = "auto"
              /\ rlOpen' = rlOpen \ {"chooseMode"}
              /\ lpc' = "auto_stream"
       ELSE UNCHANGED <<mode, rlOpen, lpc>>
  /\ UNCHANGED <<toolVars, exitCode, walletDataStr, config, tools, inputs, submitted,
                 inFlight, emitted, consumed, rendered, errOut, thrown>>

\* a loop without the finally: the interface stays open after the break
runChatMode_question_leftOpen ==
  /\ lpc = "chat_question"
  /\ \E line \in InputLines :
       /\ inputs' = Append(inputs, line)
       /\ IF IsExit(line)
            THEN /\ UNCHANGED rlOpen
                 /\ Exit(0)
            ELSE /\ Len(submitted) < MaxTurns
                 /\ lpc' = "chat_stream"
                 /\ UNCHANGED <<rlOpen, exitCode>>
  /\ UNCHANGED <<toolVars, mode, walletDataStr, config, tools, submitted,
                 inFlight, emitted, consumed, rendered, errOut, thrown>>

\* const userInput = await question("\nPrompt: ");
\* if (userInput.toLowerCase() === "exit") break;   then finally { rl.close() },
\* runChatMode and main return and the process ends
runChatMode_question ==
  /\ lpc = "chat_question"
  /\ \E line \in InputLines :
       /\ inputs' = Append(inputs, line)
       /\ IF IsExit(line)
            THEN /\ rlOpen' = rlOpen \ {"runChatMode"}
                 /\ Exit(0)
            ELSE /\ Len(submitted) < MaxTurns
                 /\ lpc' = "chat_stream"
                 /\ UNCHANGED <<rlOpen, exitCode>>
  /\ UNCHANGED <<toolVars, mode, walletDataStr, config, tools, submitted,
                 inFlight, emitted, consumed, rendered, errOut, thrown>>

\* the history of submissions keeps the first MaxTurns of them
Record(history, message) ==
  IF Len(history) < MaxTurns THEN Append(history, message) ELSE history

\* const stream = await agent.stream({ messages: [message] }, config), inside the
\* try of a run loop whose next iteration starts at retry
Stream(message, consume, retry) ==
  /\ submitted' = Record(submitted, message)
  /\ \/ \E chunks \in Streams :
          /\ emitted' = chunks
          /\ consumed' = 0
          /\ rendered' = <<>>
          /\ inFlight' = inFlight + 1
          /\ lpc' = consume
          /\ UNCHANGED <<exitCode, errOut, thrown>>
     \/ \E e \in ThrownValues :
          /\ TurnFail(e, retry)
          /\ UNCHANGED <<emitted, consumed, rendered>>

\* a loop that writes the newest chunk above the older ones
Consume_newestFirst(after, retry) ==
  \/ /\ consumed < Len(emitted)
     /\ consumed' = consumed + 1
     /\ rendered' = RenderChunk(emitted[consumed + 1]) \o rendered
     /\ UNCHANGED <<lpc, inFlight, exitCode, errOut, thrown>>
  \/ /\ consumed = Len(emitted)
     /\ inFlight' = inFlight - 1
     /\ lpc' = after
     /\ UNCHANGED <<consumed, rendered, exitCode, errOut, thrown>>
  \/ \E e \in ThrownValues :
       /\ TurnFail(e, retry)
       /\ UNCHANGED <<consumed, rendered>>

\* one round of for await (const chunk of stream) { ... }: the stream yields its
\* next chunk, which is rendered, or ends, or throws
Consume(after, retry) ==
  \/ /\ consumed < Len(emitted)
     /\ consumed' = consumed + 1
     /\ rendered' = rendered \o RenderChunk(emitted[consumed + 1])
     /\ UNCHANGED <<lpc, inFlight, exitCode, errOut, thrown>>
  \/ /\ consumed = Len(emitted)
     /\ inFlight' = inFlight - 1
     /\ lpc' = after
     /\ UNCHANGED <<consumed, rendered, exitCode, errOut, thrown>>
  \/ \E e \in ThrownValues :
       /\ TurnFail(e, retry)
       /\ UNCHANGED <<consumed, rendered>>

\* runChatMode: the turn of the line read last
runChatMode_stream ==
  /\ lpc = "chat_stream"
  /\ Stream(HumanMessage(inputs[Len(inputs)]), "chat_consume", "chat_question")
  /\ UNCHANGED <<toolVars, mode, walletDataStr, config, tools, rlOpen, inputs>>

\* a loop that asks for the next line while chunks of the stream are left
runChatMode_consume_early ==
  /\ lpc = "chat_consume"
  /\ \/ Consume("chat_question", "chat_question")
     \/ /\ consumed < Len(emitted)
        /\ lpc' = "chat_question"
        /\ UNCHANGED <<inFlight, consumed, rendered, exitCode, errOut, thrown>>
  /\ UNCHANGED <<toolVars, mode, walletDataStr, config, tools, rlOpen, inputs, submitted, emitted>>

runChatMode_consume ==
  /\ lpc = "chat_consume"
  /\ Consume("chat_question", "chat_question")
  /\ UNCHANGED <<toolVars, mode, walletDataStr, config, tools, rlOpen, inputs, submitted, emitted>>

\* runAutonomousMode: while (true) { try { stream = await agent.stream(thought) ...
runAutonomousMode_stream ==
  /\ lpc = "auto_stream"
  /\ Stream(HumanMessage(THOUGHT), "auto_consume", "auto_stream")
  /\ UNCHANGED <<toolVars, mode, walletDataStr, config, tools, rlOpen, inputs>>

runAutonomousMode_consume ==
  /\ lpc = "auto_consume"
  /\ Consume("auto_sleep", "auto_stream")
  /\ UNCHANGED <<toolVars, mode, walletDataStr, config, tools, rlOpen, inputs, submitted, emitted>>

\* a loop that returns after its first sleep
runAutonomousMode_sleep_returns ==
  /\ lpc = "auto_sleep"
  /\ Exit(0)
  /\ UNCHANGED <<toolVars, mode, walletDataStr, config, tools, rlOpen, inputs, submitted,
                 inFlight, emitted, consumed, rendered, errOut, thrown>>

\* await new Promise(resolve => setTimeout(resolve, interval * 1000));
runAutonomousMode_sleep ==
  /\ lpc = "auto_sleep"
  /\ lpc' = "auto_stream"
  /\ UNCHANGED <<toolVars, mode, exitCode, walletDataStr, config, tools, rlOpen, inputs, submitted,
                 inFlight, emitted, consumed, rendered, errOut, thrown>>

----------------------------------------------------------------------------
Init ==
  /\ tool = "none"
  /\ args = None
  /\ pc = "idle"
  /\ walletAddress = "none"
  /\ hydratedCharge = None
  /\ privateKey = "none"
  /\ payerWallet = None
  /\ response = None
  /\ payUrl = None
  /\ gwLog = <<>>
  /\ logs = <<>>
  /\ result = NoResult
  /\ failure = None
  /\ hydSerial = 0
  /\ priorHyd = None
  /\ networkId \in NetworkIds
  /\ walletLog = <<>>
  /\ lpc = "start"
  /\ mode = "none"
  /\ exitCode = -1
  /\ walletDataStr = "null"
  /\ config = None
  /\ tools = <<>>
  /\ rlOpen = {}
  /\ inputs = <<>>
  /\ submitted = <<>>
  /\ inFlight = 0
  /\ emitted = <<>>
  /\ consumed = 0
  /\ rendered = <<>>
  /\ errOut = <<>>
  /\ thrown = None

Next ==
  \/ \E c \in RawChargeIds, n \in RawChainIds : payCharge_enter(c, n)
  \/ payCharge_getDefaultAddress
  \/ payCharge_hydrateCharge
  \/ payCharge_export
  \/ payCharge_createWallet
  \/ payCharge_payCharge
  \/ payCharge_return
  \/ \E c \in RawChargeIds, n \in RawChainIds : hydrateCharge_enter(c, n)
  \/ hydrateCharge_getDefaultAddress
  \/ hydrateCharge_hydrateCharge
  \/ hydrateCharge_return
  \/ \E a \in RawCreateChargeInputs : createCharge_enter(a)
  \/ createCharge_createCharge
  \/ createCharge_return
  \/ \E a \in CreateChargeArgs : createChargeFetch_enter(a)
  \/ createChargeFetch_fetch
  \/ createChargeFetch_json
  \/ \E a \in CreateChargeArgs : createCheckout_enter(a)
  \/ createCheckout_createCheckout
  \/ getCharges_enter
  \/ getCharges_getCharges
  \/ getCharges_return
  \/ \E u \in WebhookUrls : createWebhook_enter(u)
  \/ createWebhook_createWebhook
  \/ getWebhooks_enter
  \/ getWebhooks_getWebhooks
  \/ \E b \in Blockchains : createPayLink_enter(b)
  \/ createPayLink_getDefaultAddress
  \/ createPayLink_checkNetwork
  \/ createPayLink_buildUrl
  \/ createPayLink_return
  \/ \E name \in {"create_charge", "hydrate_charge", "pay_charge"} :
       \E raw \in RawInputs(name) : invoke_rejected(name, raw)

Spec == Init /\ [][Next]_vars

\* the steps of a session
NextLoop ==
  \/ main_start
  \/ initializeAgent_readWallet
  \/ initializeAgent_configureWithWallet
  \/ initializeAgent_tools
  \/ initializeAgent_exportWallet
  \/ chooseMode_question
  \/ runChatMode_question
  \/ runChatMode_stream
  \/ runChatMode_consume
  \/ runAutonomousMode_stream
  \/ runAutonomousMode_consume
  \/ runAutonomousMode_sleep

SpecLoop == Init /\ [][NextLoop]_vars

\* a session whose autonomous loop is scheduled: agent.stream answers, a stream
\* yields its next chunk or ends, the timer of the sleep fires
SpecAuto ==
  /\ Init
  /\ [][NextLoop]_vars
  /\ WF_vars(runAutonomousMode_stream)
  /\ WF_vars(runAutonomousMode_consume)
  /\ WF_vars(runAutonomousMode_sleep)

----------------------------------------------------------------------------
(* Properties of the tool handlers *)

\* the positions in log of the calls of gateway operation op
CallsOf(log, op) == {i \in 1..Len(log) : log[i].op = op}

\* the address the wallet gave this invocation as its default address
ResolvedAddresses ==
  {walletLog[i].resp : i \in {k \in CallsOf(walletLog, "getDefaultAddress") : walletLog[k].ok}}

\* C1: in every payCharge invocation a successful gateway hydrateCharge call for
\* exactly the charge_id and chain_id of the arguments, with the wallet's default
\* address as sender, precedes the gateway payCharge call; the charge handed to
\* payCharge is the answer of that hydration, and it is not the hydration of an
\* earlier invocation.
C1_PayHydratesFirst ==
  \A i \in CallsOf(gwLog, "payCharge") :
    /\ tool = "payCharge"
    /\ \E j \in 1..(i - 1) :
         /\ gwLog[j].op = "hydrateCharge"
         /\ gwLog[j].ok
         /\ gwLog[j].req.charge_id = args.charge_id
         /\ gwLog[j].req.chain_id = args.chain_id
         /\ gwLog[j].req.sender \in ResolvedAddresses
         /\ gwLog[i].req.charge = gwLog[j].resp
    /\ priorHyd # None => gwLog[i].req.charge.serial > priorHyd.serial

\* a payment was submitted while an earlier invocation had hydrated for another chain
C1_Witness ==
  /\ CallsOf(gwLog, "payCharge") # {}
  /\ priorHyd # None
  /\ priorHyd.chainId # args.chain_id

\* C2: in every payCharge call that reaches the payment submission, the chain the
\* charge was hydrated for equals the chain the payment is submitted on (the chain
\* of the PayerWallet), whatever the chain_id argument.
C2_PaidOnHydratedChain ==
  \A i \in CallsOf(gwLog, "payCharge") :
    gwLog[i].req.charge.chainId = gwLog[i].req.walletClient.chainId

\* C3: no value payCharge writes to the console equals the private key the wallet
\* exported to it.
C3_KeyNeverLogged ==
  \A w \in CallsOf(walletLog, "export") :
    walletLog[w].ok =>
      \A i \in 1..Len(logs) : logs[i].value # [printed |-> walletLog[w].resp]

\* C4: payCharge submits no payment whose currency differs from the currency the
\* hydrated charge expects; on a mismatch it ends with an error instead.
C4_CurrencyMatches ==
  /\ \A i \in CallsOf(gwLog, "payCharge") :
       gwLog[i].req.charge.currency = gwLog[i].req.currency
  /\ (tool = "payCharge" /\ pc = "done" /\ LastHydration(gwLog) # None
        /\ LastHydration(gwLog).currency # USDC_CURRENCY)
       => result.kind = "throw"

GatewayBacked ==
  {"createCharge", "createChargeFetch", "getCharges", "createCheckout",
   "hydrateCharge", "payCharge", "createWebhook", "getWebhooks"}

ErrorLogsOf(e) == {i \in 1..Len(logs) : logs[i].stream = "error" /\ logs[i].value = e}

\* C5: when a call made by a gateway-backed operation fails, the operation ends
\* by raising that very error value, and the error is logged exactly once.
C5_FailureRaisedAndLoggedOnce ==
  (tool \in GatewayBacked /\ pc = "done" /\ failure # None) =>
    /\ result = Raised(failure)
    /\ Cardinality(ErrorLogsOf(failure)) = 1

\* C6: within one invocation each gateway operation is called at most once, and
\* no gateway call follows a failed one.
C6_NoRetry ==
  /\ \A i, j \in 1..Len(gwLog) : gwLog[i].op = gwLog[j].op => i = j
  /\ \A i \in 1..Len(gwLog) : ~gwLog[i].ok => i = Len(gwLog)

\* payCharge ended on a failed payment call after a successful hydration
C6_Witness ==
  /\ tool = "payCharge"
  /\ pc = "done"
  /\ Len(gwLog) = 2
  /\ gwLog[1].ok
  /\ ~gwLog[2].ok
  /\ result.kind = "throw"

\* the charges the gateway listed in this invocation of getCharges
Listed == gwLog[1].resp

GetChargesAnswered ==
  /\ tool = "getCharges"
  /\ pc = "done"
  /\ Len(gwLog) = 1
  /\ gwLog[1].ok

\* C7: for every list of charges the gateway returns, also one holding a charge
\* with an empty timeline, getCharges returns a result string and does not fail.
C7_EmptyTimelineHandled ==
  GetChargesAnswered => result.kind = "return"

\* C8: for every list of charges with non-empty timelines getCharges returns one
\* entry per charge, in the gateway's order, made of the charge's id, local amount,
\* currency and the status of the last element of its timeline; for the empty
\* list it returns no entry.
C8_OneLinePerCharge ==
  (GetChargesAnswered /\ \A i \in 1..Len(Listed) : Len(Listed[i].timeline) > 0) =>
    /\ result.kind = "return"
    /\ Len(result.value.lines) = Len(Listed)
    /\ \A i \in 1..Len(Listed) :
         /\ result.value.lines[i].id = Listed[i].id
         /\ result.value.lines[i].amount = Listed[i].pricing.local.amount
         /\ result.value.lines[i].currency = Listed[i].pricing.local.currency
         /\ result.value.lines[i].status =
              Listed[i].timeline[Len(Listed[i].timeline)].status

\* two charges were listed, the second with a timeline of two events
C8_Witness ==
  /\ GetChargesAnswered
  /\ Len(Listed) = 2
  /\ Listed[1].id # Listed[2].id
  /\ Len(Listed[1].timeline) = 1
  /\ Len(Listed[2].timeline) = 2
  /\ result.kind = "return"

CreateChargeReturned ==
  /\ tool \in {"createCharge", "createChargeFetch"}
  /\ pc = "done"
  /\ result.kind = "return"

\* the local_price of the request createCharge sent
SentLocalPrice ==
  IF tool = "createChargeFetch" THEN gwLog[1].req.body.local_price
                                ELSE gwLog[1].req.local_price

\* C9 as stated: the summary createCharge returns contains exactly the amount and
\* the currency code the caller passed in.
C9_SummaryShowsCallerPrice ==
  CreateChargeReturned =>
    /\ result.value.amount = args.amount
    /\ result.value.currency = args.currency

\* C9 amended: createCharge sends the caller's amount and currency code to the
\* gateway unmodified, and its summary contains the amount and the currency code
\* of the charge the gateway answered with, unmodified; so the summary shows the
\* caller's values whenever the gateway's charge carries the requested price.
C9_SummaryShowsGatewayPrice ==
  CreateChargeReturned =>
    /\ SentLocalPrice = [amount |-> args.amount, currency |-> args.currency]
    /\ result.value.amount = gwLog[1].resp.pricing.local.amount
    /\ result.value.currency = gwLog[1].resp.pricing.local.currency
    /\ gwLog[1].resp.pricing.local = SentLocalPrice =>
         /\ result.value.amount = args.amount
         /\ result.value.currency = args.currency

\* createCharge returned a summary of a charge the gateway priced as requested
C9_Witness ==
  /\ CreateChargeReturned
  /\ gwLog[1].resp.pricing.local = SentLocalPrice
  /\ args.pricing_type = "no_price"
  /\ result.value.amount = "5.99"
  /\ result.value.currency = "EUR"

\* the wallet reported network id to this invocation of createPayLink
Reported(id) ==
  /\ tool = "createPayLink"
  /\ \E i \in CallsOf(walletLog, "getNetworkId") : walletLog[i].resp = id

\* C10: when the wallet reports base-sepolia, createPayLink returns the rejection
\* string as its result, raises nothing and constructs no URL, for every blockchain
\* argument.
C10_TestNetworkRejected ==
  /\ Reported("base-sepolia") =>
       /\ pc = "done"
       /\ result = Returned([text |-> REJECTION])
       /\ ErrorLogsOf(result.value) = {}
  /\ (tool = "createPayLink" /\ networkId = "base-sepolia") =>
       /\ payUrl = None
       /\ pc \notin {"pl_buildUrl", "pl_return"}

\* createPayLink was refused on the test network for a blockchain other than the default
C10_Witness ==
  /\ Reported("base-sepolia")
  /\ args.blockchain = "ethereum"
  /\ result = Returned([text |-> REJECTION])

\* what URLSearchParams reads back from one serialised element
PercentDecode(c) ==
  CASE c = "%7B" -> "{"
    [] c = "%7D" -> "}"
    [] c = "%22" -> "\""
    [] c = "%3A" -> ":"
    [] c = "%5B" -> "["
    [] c = "%5D" -> "]"
    [] c = "%5C" -> "\\"
    [] c = "+" -> " "
    [] c = "%2B" -> "+"
    [] c = "%25" -> "%"
    [] c = "%26" -> "&"
    [] c = "%3D" -> "="
    [] OTHER -> c

\* the serialised value of query parameter name in url, <<>> when it has none:
\* the elements after "name=" up to the next "&"
QueryValue(url, name) ==
  LET starts == {i \in 2..(Len(url) - 1) :
                   url[i] = name /\ url[i + 1] = "=" /\ url[i - 1] \in {"?", "&"}} IN
  IF starts = {} THEN <<>>
  ELSE LET from == (CHOOSE i \in starts : \A j \in starts : i <= j) + 2
           stops == {k \in from..Len(url) : url[k] = "&"}
           to == IF stops = {} THEN Len(url)
                 ELSE (CHOOSE k \in stops : \A l \in stops : k <= l) - 1 IN
       SubSeq(url, from, to)

UrlDecode(chars) == [i \in 1..Len(chars) |-> PercentDecode(chars[i])]

RECURSIVE JsonReadString(_, _, _)
\* reads a JSON string literal's body from position i of text: the characters it
\* denotes and the position after its closing quote
JsonReadString(text, i, acc) ==
  IF i > Len(text) THEN [chars |-> acc, next |-> i, ok |-> FALSE]
  ELSE IF text[i] = "\"" THEN [chars |-> acc, next |-> i + 1, ok |-> TRUE]
  ELSE IF text[i] = "\\" /\ i < Len(text)
         THEN JsonReadString(text, i + 2, Append(acc, text[i + 1]))
  ELSE JsonReadString(text, i + 1, Append(acc, text[i]))

\* JSON.parse of a text of the shape {"key":["value"]}; None for any other text
JsonParse(text) ==
  IF Len(text) < 2 \/ text[1] # "{" \/ text[2] # "\"" THEN None
  ELSE LET k == JsonReadString(text, 3, <<>>) IN
       IF ~k.ok \/ k.next + 2 > Len(text) \/ text[k.next] # ":"
          \/ text[k.next + 1] # "[" \/ text[k.next + 2] # "\"" THEN None
       ELSE LET v == JsonReadString(text, k.next + 3, <<>>) IN
            IF v.ok /\ v.next + 1 = Len(text) /\ text[v.next] = "]" /\ text[v.next + 1] = "}"
              THEN [key |-> k.chars, list |-> <<v.chars>>]
              ELSE None

PayLinkReturned ==
  /\ tool = "createPayLink"
  /\ pc = "done"
  /\ networkId # "base-sepolia"
  /\ result.kind = "return"

FailedWalletCalls(op) == {i \in CallsOf(walletLog, op) : ~walletLog[i].ok}

\* C18: every hydrateCharge invocation resolves the wallet's default address in
\* that invocation and makes at most one gateway hydration call, after the
\* address was resolved, for exactly the charge_id and chain_id of the arguments
\* with the resolved address as sender; what it returns is the answer the gateway
\* gave to that call, never the hydration of an earlier invocation.
C18_HydrateUsesOwnArguments ==
  tool = "hydrateCharge" =>
    /\ Len(gwLog) <= 1
    /\ \A i \in 1..Len(gwLog) :
         /\ gwLog[i].op = "hydrateCharge"
         /\ Cardinality(CallsOf(walletLog, "getDefaultAddress")) = 1
         /\ gwLog[i].req.charge_id = args.charge_id
         /\ gwLog[i].req.chain_id = args.chain_id
         /\ gwLog[i].req.sender \in ResolvedAddresses
    /\ (pc = "done" /\ result.kind = "return") =>
         /\ Len(gwLog) = 1
         /\ gwLog[1].ok
         /\ result.value.web3Data = gwLog[1].resp
         /\ result.value.web3Data.id = args.charge_id
         /\ result.value.web3Data.chainId = args.chain_id
         /\ result.value.web3Data.sender \in ResolvedAddresses
         /\ priorHyd # None => result.value.web3Data.serial > priorHyd.serial

\* a hydration was returned for the second address and another chain than the
\* hydration of an earlier invocation
C18_Witness ==
  /\ tool = "hydrateCharge"
  /\ pc = "done"
  /\ result.kind = "return"
  /\ "0xB0b" \in ResolvedAddresses
  /\ priorHyd # None
  /\ priorHyd.chainId # args.chain_id

\* C19: in payCharge a failure to resolve the default address leaves the gateway
\* uncalled, and a failure to export the private key leaves the PayerWallet
\* unconstructed and the gateway's payCharge uncalled; in both cases the handler
\* raises the wallet's error.
C19_WalletFailureAborts ==
  tool = "payCharge" =>
    /\ FailedWalletCalls("getDefaultAddress") # {} =>
         /\ gwLog = <<>>
         /\ payerWallet = None
         /\ pc = "done"
         /\ result = Raised(walletLog[Len(walletLog)].resp)
    /\ FailedWalletCalls("export") # {} =>
         /\ CallsOf(gwLog, "payCharge") = {}
         /\ payerWallet = None
         /\ \A i \in 1..Len(logs) : logs[i].stream = "log" => logs[i].value.printed \in PrivateKeys
         /\ pc = "done"
         /\ result = Raised(walletLog[Len(walletLog)].resp)

\* the export failed after the charge had been hydrated
C19_Witness ==
  /\ tool = "payCharge"
  /\ FailedWalletCalls("export") # {}
  /\ CallsOf(gwLog, "hydrateCharge") # {}
  /\ result.kind = "throw"

\* C17: a tool invocation whose input fails the tool's schema (a field is
\* missing or of the wrong type, pricing_type is neither fixed_price nor
\* no_price, chain_id is not a number) ends with a validation error without any
\* wallet call, gateway call or console output; a handler runs only on args that
\* have every field, with pricing_type one of the two and chain_id a number.
C17_InvalidInputRejected ==
  /\ tool = "invoke" =>
       /\ pc = "done"
       /\ result = Raised([error |-> "ValidationError", detail |-> args.name])
       /\ gwLog = <<>>
       /\ walletLog = <<>>
       /\ logs = <<>>
  /\ tool = "createCharge" =>
       /\ args.pricing_type \in {"fixed_price", "no_price"}
       /\ args.amount \in Amounts
       /\ args.name \in Names
  /\ tool \in {"payCharge", "hydrateCharge"} =>
       /\ args.chain_id \in Int
       /\ args.charge_id \in ChargeIds

\* create_charge was invoked with an unknown pricing type and rejected
C17_Witness ==
  /\ tool = "invoke"
  /\ args.name = "create_charge"
  /\ args.input.pricing_type = Str("weird_price")

----------------------------------------------------------------------------
(* Properties of the session *)

\* the line is "exit" up to the case of its letters
EqualsExitIgnoringCase(line) == line \in {<<"exit">>, <<"Exit">>, <<"EXIT">>}

NotExitLine(line) == ~EqualsExitIgnoringCase(line)

\* C12: in the interactive loop a line that equals "exit" up to case ends the loop
\* without a call of the agent (it is the last line read and the process ends
\* with no error), and every other line read is submitted as exactly one turn
\* carrying that line, in the order read; only the line read last may still
\* await its submission.
C12_ExitEndsOthersSubmitted ==
  mode = "chat" =>
    LET turns == SelectSeq(inputs, NotExitLine)
        due == IF lpc = "chat_stream" THEN SubSeq(turns, 1, Len(turns) - 1) ELSE turns IN
    /\ Len(submitted) = Len(due)
    /\ \A i \in 1..Len(due) : submitted[i] = HumanMessage(due[i])
    /\ lpc = "chat_stream" => NotExitLine(inputs[Len(inputs)])
    /\ \A i \in 1..Len(inputs) :
         EqualsExitIgnoringCase(inputs[i]) =>
           /\ i = Len(inputs)
           /\ lpc = "exited"
           /\ exitCode = 0
           /\ thrown = None

\* the loop ended on "EXIT" after it had submitted the line "exit " as a turn
C12_Witness ==
  /\ mode = "chat"
  /\ lpc = "exited"
  /\ inputs # <<>>
  /\ inputs[Len(inputs)] = <<"EXIT">>
  /\ \E i \in 1..Len(submitted) : submitted[i] = HumanMessage(<<"exit", " ">>)

\* C13: in both modes at most one turn is in flight; when the loop asks for the
\* next line, submits a turn or sleeps, no stream is open and every chunk of the
\* previous stream has been consumed.
C13_OneTurnInFlight ==
  /\ inFlight <= 1
  /\ lpc \in {"chat_question", "chat_stream", "auto_stream", "auto_sleep"} =>
       /\ inFlight = 0
       /\ consumed = Len(emitted)

\* a second turn is being consumed
C13_Witness ==
  /\ Len(submitted) >= 2
  /\ inFlight = 1
  /\ consumed >= 1
  /\ consumed < Len(emitted)

\* C14: an error during a turn, thrown by the submission or while the stream is
\* consumed, ends the process with exit status 1 in that step, and after it no
\* turn is submitted, no line is read and nothing is rendered.
C14_TurnErrorIsFatal ==
  [][(thrown' # None /\ thrown'.phase = "turn") =>
       /\ lpc' = "exited"
       /\ exitCode' = 1
       /\ thrown # None => /\ submitted' = submitted
                           /\ inputs' = inputs
                           /\ rendered' = rendered]_vars

\* a chat turn failed after a chunk of its stream had been rendered
C14_Witness ==
  /\ thrown # None
  /\ thrown.phase = "turn"
  /\ mode = "chat"
  /\ consumed >= 1
  /\ lpc = "exited"

C16_ToolNamesUnique ==
  \A i, j \in 1..Len(tools) : tools[i] = tools[j] => i = j

\* C20: a process that ended with status 1 has written an error message for the
\* error that ended it, whatever kind of value was thrown.
C20_FailureIsLogged ==
  exitCode = 1 =>
    \E i \in 1..Len(errOut) : errOut[i].label \in {"Error:", "Failed to initialize agent:"}

----------------------------------------------------------------------------
(* Further properties of the tool handlers *)

\* the keys the wallet exported to this invocation
ExportedKeys ==
  {walletLog[i].resp : i \in {k \in CallsOf(walletLog, "export") : walletLog[k].ok}}

\* C21: the exported key and the PayerWallet exist only inside a payCharge call:
\* whenever no payCharge call is in progress neither is held; a payCharge call
\* exports the key at most once, and the key it holds, the PayerWallet it holds
\* and the PayerWallet of its payment are made from the key exported in this
\* very call.
C21_KeyScopedToPayCharge ==
  /\ ~(tool = "payCharge" /\ Running) =>
       /\ privateKey = "none"
       /\ payerWallet = None
  /\ Cardinality(CallsOf(walletLog, "export")) <= 1
  /\ privateKey # "none" => privateKey \in ExportedKeys
  /\ payerWallet # None =>
       /\ payerWallet.privateKey \in ExportedKeys
       /\ payerWallet.account.address = AccountAddress(payerWallet.privateKey)
  /\ \A i \in CallsOf(gwLog, "payCharge") :
       gwLog[i].req.walletClient.privateKey \in ExportedKeys

\* a payCharge call has paid and returned, after an earlier call had hydrated
C21_Witness ==
  /\ tool = "payCharge"
  /\ pc = "done"
  /\ result.kind = "return"
  /\ ExportedKeys # {}
  /\ priorHyd # None

\* the charge description a createCharge call sent to the gateway
SentCharge(call) == IF tool = "createChargeFetch" THEN call.req.body ELSE call.req

\* C25: the request createCharge sends to the gateway carries the caller's name,
\* description, amount, currency code and pricing type, unchanged.
C25_RequestCarriesAllFive ==
  tool \in {"createCharge", "createChargeFetch"} =>
    \A i \in CallsOf(gwLog, "createCharge") :
      LET sent == SentCharge(gwLog[i]) IN
      /\ {"name", "description", "pricing_type", "local_price"} \subseteq DOMAIN sent
      /\ sent.name = args.name
      /\ sent.description = args.description
      /\ sent.pricing_type = args.pricing_type
      /\ sent.local_price.amount = args.amount
      /\ sent.local_price.currency = args.currency

\* C26: every payment submission is made with a PayerWallet on chain 8453 and
\* with the one settlement currency (the USDC contract, not native, 6 decimals),
\* whatever the charge_id and chain_id arguments, the hydrated charge and the
\* calls made before.
C26_FixedSettlementConfiguration ==
  \A i \in CallsOf(gwLog, "payCharge") :
    /\ gwLog[i].req.walletClient.chainId = 8453
    /\ gwLog[i].req.currency =
         [contractAddress |-> "0x833589fCD6eDb6E08f4c7C32D4f71b54bdA02913",
          isNativeAsset |-> FALSE,
          decimals |-> 6]

\* a payment was submitted for chain 1 and a charge that expects a native asset,
\* after an earlier invocation
C26_Witness ==
  /\ CallsOf(gwLog, "payCharge") # {}
  /\ args.chain_id = 1
  /\ \E i \in CallsOf(gwLog, "payCharge") : gwLog[i].req.charge.currency = NATIVE_CURRENCY
  /\ priorHyd # None

----------------------------------------------------------------------------
(* Further properties of the session *)

RECURSIVE EventContents(_)
\* the contents of the agent and tool events among chunks, in order; the content
\* of an event is the content of the first message of its chunk
EventContents(chunks) ==
  IF chunks = <<>> THEN <<>>
  ELSE (IF Head(chunks).node \in {"agent", "tools"}
          THEN <<Head(chunks).messages[1]>> ELSE <<>>)
         \o EventContents(Tail(chunks))

IsContentLine(line) == line # SEPARATOR

IsSeparatorLine(line) == line = SEPARATOR

\* C22: within a turn the contents printed so far are the contents of the agent
\* and tool events among the chunks consumed so far, in the order the stream
\* emitted them, each chunk rendered once; when the loop has left the for-await
\* loop of a turn every chunk of the stream has been rendered.
C22_RenderedInEmissionOrder ==
  /\ consumed <= Len(emitted)
  /\ SelectSeq(rendered, IsContentLine) = EventContents(SubSeq(emitted, 1, consumed))
  /\ Len(SelectSeq(rendered, IsSeparatorLine)) = consumed
  /\ lpc \in {"chat_question", "chat_stream", "auto_sleep", "auto_stream"} =>
       /\ consumed = Len(emitted)
       /\ SelectSeq(rendered, IsContentLine) = EventContents(emitted)

\* a turn whose stream emitted a tool event and then an agent event is rendered
C22_Witness ==
  /\ lpc = "chat_question"
  /\ Len(emitted) = 2
  /\ emitted[1].node = "tools"
  /\ emitted[2].node = "agent"
  /\ rendered = <<"tool output", SEPARATOR, "thinking", SEPARATOR>>

\* the autonomous loop has just submitted a turn
AutoSubmitted == mode = "auto" /\ lpc = "auto_consume" /\ consumed = 0

\* C23: the autonomous loop ends only by the fatal exit of a failed turn, with
\* status 1; the for-await loop of a turn is followed by the sleep or by the fatal
\* exit, a submission is preceded by the sleep (or is the first one), the sleep is
\* followed by a submission; and a session in autonomous mode either submits a
\* turn again and again or ends by the fatal exit.
C23_AutonomousNeverEnds ==
  /\ [](mode = "auto" /\ lpc = "exited" =>
          thrown # None /\ thrown.phase = "turn" /\ exitCode = 1)
  /\ [][/\ (lpc = "auto_consume" /\ lpc' # "auto_consume") => lpc' \in {"auto_sleep", "exited"}
        /\ (lpc # "auto_stream" /\ lpc' = "auto_stream") => lpc \in {"auto_sleep", "chooseMode"}
        /\ (lpc = "auto_sleep" /\ lpc' # "auto_sleep") => lpc' = "auto_stream"
        /\ (lpc = "auto_stream" /\ lpc' # "auto_stream") => lpc' \in {"auto_consume", "exited"}]_vars
  /\ [](mode = "auto" => ([]<>AutoSubmitted \/ <>(lpc = "exited")))

\* the autonomous loop is about to submit after two turns and their sleeps
C23_Witness ==
  /\ mode = "auto"
  /\ lpc = "auto_stream"
  /\ Len(submitted) >= 2
  /\ consumed = Len(emitted)
  /\ consumed >= 1

BootstrapFailed == thrown # None /\ thrown.phase = "bootstrap"

\* C24: a session whose bootstrap failed has ended with status 1 without a mode
\* prompt, a chosen mode, a line read or a turn submitted.
C24_BootstrapFailureIsFatal ==
  BootstrapFailed =>
    /\ lpc = "exited"
    /\ exitCode = 1
    /\ mode = "none"
    /\ rlOpen = {}
    /\ inputs = <<>>
    /\ submitted = <<>>
    /\ emitted = <<>>
    /\ rendered = <<>>

\* the bootstrap failed after the tool set had been built
C24_Witness ==
  /\ BootstrapFailed
  /\ tools # <<>>
  /\ lpc = "exited"

\* C27: a chat session that ended on the exit command (status 0) has closed the
\* input interface it opened, and after the process has ended no line is read.
C27_InterfaceClosedOnExit ==
  /\ [](mode = "chat" /\ lpc = "exited" /\ exitCode = 0 => rlOpen = {})
  /\ [][lpc = "exited" => inputs' = inputs /\ rlOpen' = rlOpen]_vars

\* a chat session ended on the exit command after a turn
C27_Witness ==
  /\ mode = "chat"
  /\ lpc = "exited"
  /\ exitCode = 0
  /\ Len(inputs) >= 2
  /\ rlOpen = {}

\* the read of the wallet data file failed
ReadFailed ==
  \E i \in 1..Len(errOut) : errOut[i].label = "Error reading wallet data:"

\* the session is in one of its run loops
SessionRunning ==
  lpc \in {"chat_question", "chat_stream", "chat_consume",
           "auto_stream", "auto_consume", "auto_sleep"}

\* C28: the read of the wallet data file never ends the process, whatever its
\* outcome: the next step is the configuration of the wallet; after a failed read
\* there is no prior state, and the wallet is configured without prior state.
C28_ReadFailureNotFatal ==
  /\ [][lpc = "boot_readWallet" =>
          /\ lpc' = "boot_configure"
          /\ exitCode' = -1
          /\ thrown' = None]_vars
  /\ [](ReadFailed =>
          /\ walletDataStr = "null"
          /\ config # None => config.cdpWalletData = "undefined")

\* a session whose read of the wallet data file failed has submitted a turn
C28_Witness ==
  /\ ReadFailed
  /\ SessionRunning
  /\ config # None
  /\ Len(submitted) >= 1

====
